---- MODULE Spec2Model ----
(***************************************************************************)
(* Model of the cost/latency scheduler of backend/rust/src/scheduler.rs:   *)
(* Scheduler::schedule_tasks (admission checks, BinaryHeap ordering) and    *)
(* Scheduler::execute_tasks (one tokio task per descriptor, joined in       *)
(* spawn order).                                                            *)
(*                                                                          *)
(* f64 values are modelled by NaN and the integer-valued floats up to and    *)
(* beyond 2^53, with the rounding f64 performs there, so the arithmetic     *)
(* below is the arithmetic the program performs on these inputs.            *)
(***************************************************************************)
EXTENDS Integers, Sequences, FiniteSets

\* Longest batch handed to schedule_tasks or execute_tasks.
MaxLen == 3
\* Longest batch of a call that runs while another call is in progress.
SharedLen == 2

\* latency = task.estimated_cost * 10.0
LatencyScale == 10

(***************************************************************************)
(* f64.  A value is NaN or the integer hi * 2^53 + v, with hi >= 0 and v    *)
(* small against 2^53.  Below 2^53 every integer is an f64 and the          *)
(* arithmetic is exact; from 2^53 on the f64 values are 2^(e-52) apart (e   *)
(* the exponent of the value) and a result is rounded to the nearest of     *)
(* them, ties to the even one, as IEEE 754 binary64 does.                   *)
(***************************************************************************)
F(n) == [nan |-> FALSE, hi |-> 0, v |-> n]
NaN == [nan |-> TRUE, hi |-> 0, v |-> 0]
\* 2^53, the first f64 after which odd integers are not representable
Huge == [nan |-> FALSE, hi |-> 1, v |-> 0]

RECURSIVE Log2(_)
Log2(a) == IF a <= 1 THEN 0 ELSE 1 + Log2(a \div 2)

\* Distance between neighbouring f64 values around hi * 2^53 + v
Spacing(hi, v) ==
    IF v >= 0 THEN 2 ^ (Log2(hi) + 1)
    ELSE IF hi = 1 THEN 1
    ELSE 2 ^ (Log2(hi - 1) + 1)

\* The f64 nearest to the integer hi * 2^53 + v, ties to even
Round(hi, v) ==
    IF hi = 0 THEN [nan |-> FALSE, hi |-> 0, v |-> v]
    ELSE LET s == Spacing(hi, v)
             q == v \div s
             r == v % s
             up == 2 * r > s \/ (2 * r = s /\ q % 2 = 1)
         IN  [nan |-> FALSE, hi |-> hi, v |-> s * (IF up THEN q + 1 ELSE q)]

\* f64 * f64, one factor at least below 2^53
FMul(x, y) ==
    IF x.nan \/ y.nan THEN NaN
    ELSE Round(x.hi * y.v + x.v * y.hi, x.v * y.v)
\* f64 + f64 (total_cost += task.estimated_cost)
FAdd(x, y) == IF x.nan \/ y.nan THEN NaN ELSE Round(x.hi + y.hi, x.v + y.v)
\* f64 > f64: false as soon as one side is NaN
FGt(x, y) ==
    ~x.nan /\ ~y.nan /\ (x.hi > y.hi \/ (x.hi = y.hi /\ x.v > y.v))
\* f64::partial_cmp(..) is Some(Less | Equal): false as soon as one side is NaN
FLe(x, y) ==
    ~x.nan /\ ~y.nan /\ (x.hi < y.hi \/ (x.hi = y.hi /\ x.v <= y.v))

(***************************************************************************)
(* Inputs                                                                   *)
(***************************************************************************)
Ids == {0, 1}
Targets == {<<"quantum", "cirq">>, <<"classical", "local">>}
Costs == {F(-1), F(0), F(1), F(2), NaN}
MaxLatencies == {F(10), F(20)}
MaxBudgets == {F(1), F(3)}

\* struct TaskConfig
TaskConfig(id, kind, backend, cost) ==
    [id |-> id, type |-> kind, backend |-> backend, estimated_cost |-> cost]

TaskConfigs ==
    {TaskConfig(i, t[1], t[2], c) : i \in Ids, t \in Targets, c \in Costs}

\* The descriptors handed to execute_tasks, which reads id and backend only.
ExecConfigs == {d \in TaskConfigs : d.estimated_cost = F(1)}

SeqsUpTo(S, n) == UNION {[1..k -> S] : k \in 0..n}

\* The arguments of the calls that run while another call is in progress.
SharedConfigs ==
    {TaskConfig(i, "quantum", "cirq", c) : i \in Ids, c \in {F(1), F(2)}}
SharedExecConfigs ==
    {TaskConfig(0, t[1], t[2], F(1)) : t \in Targets}
PeerLatencies == {F(20)}
PeerBudgets == {F(3)}

\* Arguments on which f64 addition rounds: costs and ceilings around 2^53.
LargeConfigs ==
    {TaskConfig(i, "quantum", "cirq", c) : i \in Ids, c \in {F(1), F(2), Huge}}
LargeLatencies == {F(20), FMul(Huge, F(10))}
LargeBudgets == {F(3), Huge, FAdd(Huge, F(4))}

(***************************************************************************)
(* TaskPriority and its ordering                                            *)
(***************************************************************************)
\* TaskPriority { task: task.clone(), priority: task.estimated_cost }
TaskPriority(task) == [task |-> task, priority |-> task.estimated_cost]

\* a <= b as BinaryHeap evaluates it on TaskPriority: PartialOrd::le through
\* partial_cmp, which compares other.priority with self.priority (reversed).
TPLeMaxHeap(a, b) == FLe(a.priority, b.priority)
TPLe(a, b) == FLe(b.priority, a.priority)

\* PartialEq for TaskPriority: the priorities alone are compared.
TPEq(a, b) ==
    /\ ~a.priority.nan /\ ~b.priority.nan
    /\ a.priority.hi = b.priority.hi /\ a.priority.v = b.priority.v

(***************************************************************************)
(* std::collections::BinaryHeap as the program uses it (positions 1-based)  *)
(***************************************************************************)
Parent(pos) == pos \div 2

\* sift_up(start, pos) with the element elt taken out of the hole at pos
RECURSIVE SiftUp(_, _, _, _)
SiftUp(data, start, pos, elt) ==
    IF pos > start /\ ~TPLe(elt, data[Parent(pos)])
    THEN SiftUp([data EXCEPT ![pos] = data[Parent(pos)]], start, Parent(pos), elt)
    ELSE [data EXCEPT ![pos] = elt]

\* sift_down_to_bottom(start): the hole goes down to a leaf along the greater
\* children, then the element is sifted up from there.
RECURSIVE SiftDownToBottom(_, _, _, _)
SiftDownToBottom(data, start, pos, elt) ==
    LET end == Len(data)
        l == 2 * pos
        r == 2 * pos + 1
    IN  IF r <= end
        THEN LET c == IF TPLe(data[l], data[r]) THEN r ELSE l
             IN  SiftDownToBottom([data EXCEPT ![pos] = data[c]], start, c, elt)
        ELSE IF l = end
        THEN SiftUp([data EXCEPT ![pos] = data[l]], start, l, elt)
        ELSE SiftUp(data, start, pos, elt)

\* heap.push(item)
HeapPushMerge(data, item) ==
    IF \E i \in 1..Len(data) : TPEq(data[i], item)
    THEN data
    ELSE SiftUp(Append(data, item), 1, Len(data) + 1, item)
HeapPush(data, item) == SiftUp(Append(data, item), 1, Len(data) + 1, item)

\* heap.pop() on a non-empty heap: the item handed back and the heap left.
HeapPeek(data) == [item |-> data[1], heap |-> data]
HeapPop(data) ==
    LET last == data[Len(data)]
        rest == SubSeq(data, 1, Len(data) - 1)
    IN  IF rest = <<>>
        THEN [item |-> last, heap |-> <<>>]
        ELSE [item |-> rest[1], heap |-> SiftDownToBottom(rest, 1, 1, last)]

(***************************************************************************)
(* State                                                                    *)
(***************************************************************************)
VARIABLES
    tasks,              \* Scheduler.tasks: the heap behind Arc<Mutex<..>>
    tasks_locked,       \* whether that Mutex is held
    pc,                 \* position of the call in progress
    task_configs,       \* the batch handed to the call
    max_latency,        \* schedule_tasks argument
    max_budget,         \* schedule_tasks argument
    idx,                \* descriptors taken from task_configs by the for loop
    heap,               \* schedule_tasks local
    total_cost,         \* schedule_tasks local
    prioritized_tasks,  \* schedule_tasks local
    sched_result,       \* what schedule_tasks returned
    handles,            \* execute_tasks local `tasks`: the JoinHandles
    joined,             \* handles taken by the join loop
    results,            \* execute_tasks local
    exec_result,        \* what execute_tasks returned
    completed,          \* the spawned tasks in the order they completed
    previous,           \* what the call before returned, when it is repeated
    lib_result,         \* what the pyo3 method returned on the same arguments
    peer                \* a second schedule_tasks call on the same Scheduler

vars == <<tasks, tasks_locked, pc, task_configs, max_latency, max_budget, idx,
          heap, total_cost, prioritized_tasks, sched_result, handles, joined,
          results, exec_result, completed, previous, lib_result, peer>>

NoResult == [status |-> "none"]

schedVars == <<max_latency, max_budget, idx, heap, total_cost,
               prioritized_tasks, sched_result>>
execVars == <<handles, joined, results, exec_result, completed>>
fieldVars == <<tasks, tasks_locked>>
auxVars == <<previous, lib_result, peer>>

\* A schedule_tasks call that has not been made: its arguments and locals.
PeerIdle ==
    [pc |-> "idle", task_configs |-> <<>>, max_latency |-> F(0),
     max_budget |-> F(0), idx |-> 0, heap |-> <<>>, total_cost |-> F(0),
     prioritized_tasks |-> <<>>, sched_result |-> NoResult]

\* Scheduler::new()
Init ==
    /\ tasks = <<>>
    /\ tasks_locked = FALSE
    /\ pc = "idle"
    /\ task_configs = <<>>
    /\ max_latency = F(0)
    /\ max_budget = F(0)
    /\ idx = 0
    /\ heap = <<>>
    /\ total_cost = F(0)
    /\ prioritized_tasks = <<>>
    /\ sched_result = NoResult
    /\ handles = <<>>
    /\ joined = 0
    /\ results = <<>>
    /\ exec_result = NoResult
    /\ completed = <<>>
    /\ previous = NoResult
    /\ lib_result = NoResult
    /\ peer = PeerIdle

\* No call is in progress and the caller holds no earlier result.
Callable == pc = "idle"

\* The caller is done with what a call returned: nothing of the call is left.
Release ==
    /\ pc \in {"sched_returned", "exec_returned"}
    /\ pc' = "idle"
    /\ task_configs' = <<>>
    /\ max_latency' = F(0)
    /\ max_budget' = F(0)
    /\ idx' = 0
    /\ heap' = <<>>
    /\ total_cost' = F(0)
    /\ prioritized_tasks' = <<>>
    /\ sched_result' = NoResult
    /\ handles' = <<>>
    /\ joined' = 0
    /\ results' = <<>>
    /\ exec_result' = NoResult
    /\ completed' = <<>>
    /\ previous' = NoResult
    /\ lib_result' = NoResult
    /\ UNCHANGED peer
    /\ UNCHANGED fieldVars

(***************************************************************************)
(* schedule_tasks                                                           *)
(***************************************************************************)
\* Err(format!("Task {} exceeds max latency: {}s > {}s", task.id, latency, max_latency))
LatencyError(task, latency, limit) ==
    [status |-> "err", kind |-> "latency", id |-> task.id,
     latency |-> latency, limit |-> limit, tasks |-> <<>>]

\* Err(format!("Total cost exceeds budget: ${} > ${}", total_cost, max_budget))
BudgetError(total, limit) ==
    [status |-> "err", kind |-> "budget", total |-> total, limit |-> limit,
     tasks |-> <<>>]

\* Ok(prioritized_tasks)
Ok(ts) == [status |-> "ok", tasks |-> ts]

\* let latency = task.estimated_cost * 10.0
LatencyUnscaled(task) == task.estimated_cost
Latency(task) == FMul(task.estimated_cost, F(LatencyScale))

\* total_cost += task.estimated_cost
AccumulateLast(total, task) == task.estimated_cost
Accumulate(total, task) == FAdd(total, task.estimated_cost)

\* return Err(..): the error alone leaves the call, the heap is dropped
AbortPartial(error, admitted) ==
    Ok([i \in 1..Len(admitted) |-> admitted[i].task])
Abort(error, admitted) == error

\* let mut total_cost = 0.0;
CarriedTotal == total_cost
InitialTotal == F(0)

\* The call: let mut heap = BinaryHeap::new(); let mut total_cost = 0.0;
ScheduleEntry(batches, latencies, budgets) ==
    /\ Callable
    /\ \E batch \in batches, ml \in latencies, mb \in budgets :
        /\ task_configs' = batch
        /\ max_latency' = ml
        /\ max_budget' = mb
    /\ pc' = "validate"
    /\ idx' = 0
    /\ heap' = <<>>
    /\ total_cost' = InitialTotal
    /\ prioritized_tasks' = <<>>
    /\ sched_result' = NoResult
    /\ handles' = <<>>
    /\ joined' = 0
    /\ results' = <<>>
    /\ exec_result' = NoResult
    /\ completed' = <<>>
    /\ UNCHANGED fieldVars
    /\ UNCHANGED auxVars

CallSchedule ==
    ScheduleEntry(SeqsUpTo(TaskConfigs, MaxLen), MaxLatencies, MaxBudgets)

\* schedule_tasks is entered while another call may be in progress.
CallScheduleShared ==
    ScheduleEntry(SeqsUpTo(SharedConfigs, SharedLen), MaxLatencies, MaxBudgets)

\* schedule_tasks is entered with costs and ceilings around 2^53.
CallScheduleLarge ==
    ScheduleEntry(SeqsUpTo(LargeConfigs, MaxLen), LargeLatencies, LargeBudgets)

\* The caller calls schedule_tasks again with the batch and the ceilings of
\* the call that has just returned, keeping what that call returned.
CallScheduleAgain ==
    /\ pc = "sched_returned"
    /\ previous' = sched_result
    /\ pc' = "validate"
    /\ idx' = 0
    /\ heap' = <<>>
    /\ total_cost' = InitialTotal
    /\ prioritized_tasks' = <<>>
    /\ sched_result' = NoResult
    /\ lib_result' = NoResult
    /\ UNCHANGED <<task_configs, max_latency, max_budget, peer>>
    /\ UNCHANGED execVars
    /\ UNCHANGED fieldVars

\* One pass of `for task in task_configs`.
ValidateStepBudgetFirst ==
    /\ pc = "validate"
    /\ idx < Len(task_configs)
    /\ LET task == task_configs[idx + 1]
           latency == Latency(task)
           total == Accumulate(total_cost, task)
       IN  /\ idx' = idx + 1
           /\ total_cost' = total
           /\ IF FGt(total, max_budget)
              THEN /\ sched_result' = Abort(BudgetError(total, max_budget), heap)
                   /\ pc' = "sched_returned"
                   /\ UNCHANGED heap
              ELSE IF FGt(latency, max_latency)
              THEN /\ sched_result' = Abort(LatencyError(task, latency, max_latency), heap)
                   /\ pc' = "sched_returned"
                   /\ UNCHANGED heap
              ELSE /\ heap' = HeapPush(heap, TaskPriority(task))
                   /\ UNCHANGED <<sched_result, pc>>
    /\ UNCHANGED <<task_configs, max_latency, max_budget, prioritized_tasks>>
    /\ UNCHANGED execVars
    /\ UNCHANGED fieldVars
    /\ UNCHANGED auxVars
ValidateStep ==
    /\ pc = "validate"
    /\ idx < Len(task_configs)
    /\ LET task == task_configs[idx + 1]
           latency == Latency(task)
           total == Accumulate(total_cost, task)
       IN  /\ idx' = idx + 1
           /\ IF FGt(latency, max_latency)
              THEN /\ sched_result' = Abort(LatencyError(task, latency, max_latency), heap)
                   /\ pc' = "sched_returned"
                   /\ UNCHANGED <<total_cost, heap>>
              ELSE IF FGt(total, max_budget)
              THEN /\ sched_result' = Abort(BudgetError(total, max_budget), heap)
                   /\ pc' = "sched_returned"
                   /\ total_cost' = total
                   /\ UNCHANGED heap
              ELSE /\ heap' = HeapPush(heap, TaskPriority(task))
                   /\ total_cost' = total
                   /\ UNCHANGED <<sched_result, pc>>
    /\ UNCHANGED <<task_configs, max_latency, max_budget, prioritized_tasks>>
    /\ UNCHANGED execVars
    /\ UNCHANGED fieldVars
    /\ UNCHANGED auxVars

\* The for loop is exhausted: let mut prioritized_tasks = Vec::new();
ValidateDone ==
    /\ pc = "validate"
    /\ idx = Len(task_configs)
    /\ pc' = "drain"
    /\ prioritized_tasks' = <<>>
    /\ UNCHANGED <<task_configs, max_latency, max_budget, idx, heap, total_cost,
                   sched_result>>
    /\ UNCHANGED execVars
    /\ UNCHANGED fieldVars
    /\ UNCHANGED auxVars

\* One pass of `while let Some(task_priority) = heap.pop()`.
DrainStep ==
    /\ pc = "drain"
    /\ heap # <<>>
    /\ LET popped == HeapPop(heap)
       IN  /\ heap' = popped.heap
           /\ prioritized_tasks' = Append(prioritized_tasks, popped.item.task)
    /\ UNCHANGED <<pc, task_configs, max_latency, max_budget, idx, total_cost,
                   sched_result>>
    /\ UNCHANGED execVars
    /\ UNCHANGED fieldVars
    /\ UNCHANGED auxVars

\* heap.pop() is None: Ok(prioritized_tasks)
ScheduleReturnStored ==
    /\ pc = "drain"
    /\ heap = <<>>
    /\ sched_result' = Ok(prioritized_tasks)
    /\ pc' = "sched_returned"
    /\ tasks' = [i \in 1..Len(prioritized_tasks) |->
                     TaskPriority(prioritized_tasks[i])]
    /\ UNCHANGED <<task_configs, max_latency, max_budget, idx, heap, total_cost,
                   prioritized_tasks, tasks_locked>>
    /\ UNCHANGED execVars
    /\ UNCHANGED auxVars

ScheduleReturn ==
    /\ pc = "drain"
    /\ heap = <<>>
    /\ sched_result' = Ok(prioritized_tasks)
    /\ pc' = "sched_returned"
    /\ UNCHANGED <<task_configs, max_latency, max_budget, idx, heap, total_cost,
                   prioritized_tasks>>
    /\ UNCHANGED execVars
    /\ UNCHANGED fieldVars
    /\ UNCHANGED auxVars

(***************************************************************************)
(* A schedule_tasks call as a frame of its own: the arguments, the locals   *)
(* and the position of one call, stepped by the same code.  A second call   *)
(* on the same (or a cloned) Scheduler runs in such a frame, interleaved    *)
(* with the first; run to its end in one go, the frame is what the call     *)
(* returns when nothing else runs.                                          *)
(***************************************************************************)
Frame(batch, ml, mb, h) ==
    [pc |-> "validate", task_configs |-> batch, max_latency |-> ml,
     max_budget |-> mb, idx |-> 0, heap |-> h, total_cost |-> F(0),
     prioritized_tasks |-> <<>>, sched_result |-> NoResult]

FrameStep(c) ==
    IF c.pc = "validate" /\ c.idx < Len(c.task_configs)
    THEN LET task == c.task_configs[c.idx + 1]
             latency == Latency(task)
             total == Accumulate(c.total_cost, task)
         IN  IF FGt(latency, c.max_latency)
             THEN [c EXCEPT !.idx = @ + 1, !.pc = "sched_returned",
                            !.sched_result =
                                Abort(LatencyError(task, latency, c.max_latency),
                                      c.heap)]
             ELSE IF FGt(total, c.max_budget)
             THEN [c EXCEPT !.idx = @ + 1, !.pc = "sched_returned",
                            !.total_cost = total,
                            !.sched_result =
                                Abort(BudgetError(total, c.max_budget), c.heap)]
             ELSE [c EXCEPT !.idx = @ + 1, !.total_cost = total,
                            !.heap = HeapPush(c.heap, TaskPriority(task))]
    ELSE IF c.pc = "validate"
    THEN [c EXCEPT !.pc = "drain", !.prioritized_tasks = <<>>]
    ELSE IF c.pc = "drain" /\ c.heap # <<>>
    THEN LET popped == HeapPop(c.heap)
         IN  [c EXCEPT !.heap = popped.heap,
                       !.prioritized_tasks = Append(@, popped.item.task)]
    ELSE IF c.pc = "drain"
    THEN [c EXCEPT !.pc = "sched_returned",
                   !.sched_result = Ok(c.prioritized_tasks)]
    ELSE c

RECURSIVE RunFrame(_)
RunFrame(c) == IF c.pc = "sched_returned" THEN c ELSE RunFrame(FrameStep(c))

\* schedule_tasks(task_configs, max_latency, max_budget), run on its own
ScheduleTasks(batch, ml, mb) == RunFrame(Frame(batch, ml, mb, <<>>)).sched_result

\* let mut heap = BinaryHeap::new(): the heap of a call is its own
SharedHeap == heap
FreshHeap == <<>>

\* A second caller enters schedule_tasks(&self, ..) on the same Scheduler.
PeerCall ==
    /\ peer.pc = "idle"
    /\ \E batch \in SeqsUpTo(SharedConfigs, SharedLen), ml \in PeerLatencies,
          mb \in PeerBudgets :
        peer' = Frame(batch, ml, mb, FreshHeap)
    /\ UNCHANGED <<pc, task_configs, previous, lib_result>>
    /\ UNCHANGED schedVars
    /\ UNCHANGED execVars
    /\ UNCHANGED fieldVars

\* The second call takes one step of its for loop or of its drain loop.
PeerStep ==
    /\ peer.pc \in {"validate", "drain"}
    /\ peer' = FrameStep(peer)
    /\ UNCHANGED <<pc, task_configs, previous, lib_result>>
    /\ UNCHANGED schedVars
    /\ UNCHANGED execVars
    /\ UNCHANGED fieldVars

\* The second caller is done with what its call returned.
PeerRelease ==
    /\ peer.pc = "sched_returned"
    /\ peer' = PeerIdle
    /\ UNCHANGED <<pc, task_configs, previous, lib_result>>
    /\ UNCHANGED schedVars
    /\ UNCHANGED execVars
    /\ UNCHANGED fieldVars

(***************************************************************************)
(* execute_tasks                                                            *)
(***************************************************************************)
\* format!("Executed task {} on {}", task.id, task.backend): the text is
\* determined by the two values it is built from.
Message(id, backend) == [executed_task |-> id, on |-> backend]

\* (task.id, format!("Executed task {} on {}", task.id, task.backend))
OutcomeFirstBackend(task) ==
    <<task.id, Message(task.id, task_configs[1].backend)>>
Outcome(task) == <<task.id, Message(task.id, task.backend)>>

\* tokio::spawn(async move { .. }): the JoinHandle of a task not yet complete
Spawned(task) == [task |-> task, state |-> "running", output |-> <<>>]

\* task.await resolves once the spawned task has completed or failed
JoinReadyNoWait(h) == TRUE
JoinReady(h) == h.state # "running"

\* if let Ok(result) = task.await { results.push(result); }
CollectAll(rs, h) == Append(rs, Outcome(h.task))
CollectTwice(rs, h) == IF h.state = "finished" THEN rs \o h.output \o h.output ELSE rs
CollectFront(rs, h) == IF h.state = "finished" THEN h.output \o rs ELSE rs
Collect(rs, h) == IF h.state = "finished" THEN rs \o h.output ELSE rs

\* results: execute_tasks hands back a plain Vec, it has no error channel
ReturnedNonEmpty(rs) ==
    IF rs = <<>> THEN [status |-> "err", outcomes |-> rs]
    ELSE [status |-> "ok", outcomes |-> rs]
Returned(rs) == [status |-> "ok", outcomes |-> rs]

\* The call: let mut results = Vec::new();
ExecuteEntry(batches) ==
    /\ Callable
    /\ \E batch \in batches : task_configs' = batch
    /\ pc' = "spawn"
    /\ handles' = <<>>
    /\ joined' = 0
    /\ results' = <<>>
    /\ exec_result' = NoResult
    /\ completed' = <<>>
    /\ UNCHANGED schedVars
    /\ UNCHANGED fieldVars
    /\ UNCHANGED auxVars

CallExecute == ExecuteEntry(SeqsUpTo(ExecConfigs, MaxLen))

\* execute_tasks is entered while a schedule_tasks call may be in progress.
CallExecuteShared == ExecuteEntry(SeqsUpTo(SharedExecConfigs, SharedLen))

\* One pass of task_configs.into_iter().map(|task| tokio::spawn(..))
SpawnStepBounded ==
    /\ pc = "spawn"
    /\ Len(handles) < Len(task_configs)
    /\ Cardinality({i \in 1..Len(handles) : handles[i].state = "running"}) < 2
    /\ handles' = Append(handles, Spawned(task_configs[Len(handles) + 1]))
    /\ UNCHANGED <<pc, task_configs, joined, results, exec_result, completed>>
    /\ UNCHANGED schedVars
    /\ UNCHANGED fieldVars
    /\ UNCHANGED auxVars
SpawnStep ==
    /\ pc = "spawn"
    /\ Len(handles) < Len(task_configs)
    /\ handles' = Append(handles, Spawned(task_configs[Len(handles) + 1]))
    /\ UNCHANGED <<pc, task_configs, joined, results, exec_result, completed>>
    /\ UNCHANGED schedVars
    /\ UNCHANGED fieldVars
    /\ UNCHANGED auxVars

\* .collect(): every descriptor has its JoinHandle
SpawnDone ==
    /\ pc = "spawn"
    /\ Len(handles) = Len(task_configs)
    /\ pc' = "join"
    /\ UNCHANGED <<task_configs, handles, joined, results, exec_result, completed>>
    /\ UNCHANGED schedVars
    /\ UNCHANGED fieldVars
    /\ UNCHANGED auxVars

\* The body of a spawned task runs to its end.
UnitFinish(i) ==
    /\ pc \in {"spawn", "join"}
    /\ i \in 1..Len(handles)
    /\ handles[i].state = "running"
    /\ handles' = [handles EXCEPT ![i].state = "finished",
                                  ![i].output = <<Outcome(handles[i].task)>>]
    /\ completed' = Append(completed, i)
    /\ UNCHANGED <<pc, task_configs, joined, results, exec_result>>
    /\ UNCHANGED schedVars
    /\ UNCHANGED fieldVars
    /\ UNCHANGED auxVars

\* A spawned task panics or is cancelled: its JoinHandle yields Err(JoinError).
UnitFail(i) ==
    /\ pc \in {"spawn", "join"}
    /\ i \in 1..Len(handles)
    /\ handles[i].state = "running"
    /\ handles' = [handles EXCEPT ![i].state = "failed"]
    /\ completed' = Append(completed, i)
    /\ UNCHANGED <<pc, task_configs, joined, results, exec_result>>
    /\ UNCHANGED schedVars
    /\ UNCHANGED fieldVars
    /\ UNCHANGED auxVars

\* One pass of `for task in tasks`.
JoinStep ==
    /\ pc = "join"
    /\ joined < Len(handles)
    /\ JoinReady(handles[joined + 1])
    /\ results' = Collect(results, handles[joined + 1])
    /\ joined' = joined + 1
    /\ UNCHANGED <<pc, task_configs, handles, exec_result, completed>>
    /\ UNCHANGED schedVars
    /\ UNCHANGED fieldVars
    /\ UNCHANGED auxVars

\* The join loop is exhausted: results
ExecuteReturn ==
    /\ pc = "join"
    /\ joined = Len(handles)
    /\ exec_result' = Returned(results)
    /\ pc' = "exec_returned"
    /\ UNCHANGED <<task_configs, handles, joined, results, completed>>
    /\ UNCHANGED schedVars
    /\ UNCHANGED fieldVars
    /\ UNCHANGED auxVars

(***************************************************************************)
(* The pyo3 Scheduler of lib.rs: the same two operations behind a JSON      *)
(* boundary, each run to its end inside Python::with_gil.                   *)
(***************************************************************************)
\* let latency = task.estimated_cost * 10.0 (lib.rs)
LibLatencyScale == 10

\* serde_json writes an f64 as a number, and NaN as null
JNull == [kind |-> "null", hi |-> 0, v |-> 0]
JNumber(x) == [kind |-> "number", hi |-> x.hi, v |-> x.v]
JsonF64(x) == IF x.nan THEN JNull ELSE JNumber(x)

\* serde_json::to_string of a Vec<TaskConfig>: one object per descriptor
ToJson(configs) ==
    [i \in 1..Len(configs) |->
        [id |-> configs[i].id, type |-> configs[i].type,
         backend |-> configs[i].backend,
         estimated_cost |-> JsonF64(configs[i].estimated_cost)]]

\* serde_json::from_str::<Vec<TaskConfig>>: null is no f64
FromJson(json) ==
    IF \E i \in 1..Len(json) : json[i].estimated_cost.kind # "number"
    THEN [ok |-> FALSE, configs |-> <<>>]
    ELSE [ok |-> TRUE,
          configs |-> [i \in 1..Len(json) |->
              [id |-> json[i].id, type |-> json[i].type,
               backend |-> json[i].backend,
               estimated_cost |->
                   [nan |-> FALSE, hi |-> json[i].estimated_cost.hi,
                    v |-> json[i].estimated_cost.v]]]]

\* PyValueError::new_err(format!("Failed to parse task configs: {}", e))
LibParseError == [status |-> "err", kind |-> "parse"]

\* PartialOrd for TaskPriority (lib.rs): reversed, as in scheduler.rs
LibTPLeUnreversed(a, b) == FLe(a.priority, b.priority)
LibTPLe(a, b) == FLe(b.priority, a.priority)

\* BinaryHeap under the ordering of lib.rs
RECURSIVE LibSiftUp(_, _, _, _)
LibSiftUp(data, start, pos, elt) ==
    IF pos > start /\ ~LibTPLe(elt, data[pos \div 2])
    THEN LibSiftUp([data EXCEPT ![pos] = data[pos \div 2]], start, pos \div 2, elt)
    ELSE [data EXCEPT ![pos] = elt]

RECURSIVE LibSiftDownToBottom(_, _, _, _)
LibSiftDownToBottom(data, start, pos, elt) ==
    LET end == Len(data)
        l == 2 * pos
        r == 2 * pos + 1
    IN  IF r <= end
        THEN LET c == IF LibTPLe(data[l], data[r]) THEN r ELSE l
             IN  LibSiftDownToBottom([data EXCEPT ![pos] = data[c]], start, c, elt)
        ELSE IF l = end
        THEN LibSiftUp([data EXCEPT ![pos] = data[l]], start, l, elt)
        ELSE LibSiftUp(data, start, pos, elt)

LibHeapPush(data, item) == LibSiftUp(Append(data, item), 1, Len(data) + 1, item)

LibHeapPop(data) ==
    LET last == data[Len(data)]
        rest == SubSeq(data, 1, Len(data) - 1)
    IN  IF rest = <<>>
        THEN [item |-> last, heap |-> <<>>]
        ELSE [item |-> rest[1], heap |-> LibSiftDownToBottom(rest, 1, 1, last)]

\* for task in task_configs { .. } of lib.rs, from descriptor i on
RECURSIVE LibValidate(_, _, _, _, _, _)
LibValidate(configs, i, h, total, ml, mb) ==
    IF i > Len(configs)
    THEN [status |-> "ok", heap |-> h]
    ELSE LET task == configs[i]
             latency == FMul(task.estimated_cost, F(LibLatencyScale))
             sum == FAdd(total, task.estimated_cost)
         IN  IF FGt(latency, ml)
             THEN [status |-> "err", kind |-> "latency", id |-> task.id,
                   latency |-> latency, limit |-> ml]
             ELSE IF FGt(sum, mb)
             THEN [status |-> "err", kind |-> "budget", total |-> sum,
                   limit |-> mb]
             ELSE LibValidate(configs, i + 1,
                      LibHeapPush(h, [task |-> task,
                                      priority |-> task.estimated_cost]),
                      sum, ml, mb)

\* while let Some(task_priority) = heap.pop() { .. } of lib.rs
RECURSIVE LibDrain(_, _)
LibDrain(h, acc) ==
    IF h = <<>> THEN acc
    ELSE LET popped == LibHeapPop(h)
         IN  LibDrain(popped.heap, Append(acc, popped.item.task))

\* Scheduler::schedule_tasks of lib.rs
LibScheduleTasks(json, ml, mb) ==
    LET parsed == FromJson(json)
    IN  IF ~parsed.ok THEN LibParseError
        ELSE LET checked == LibValidate(parsed.configs, 1, <<>>, F(0), ml, mb)
             IN  IF checked.status = "err" THEN checked
                 ELSE [status |-> "ok",
                       json |-> ToJson(LibDrain(checked.heap, <<>>))]

\* Scheduler::execute_tasks of lib.rs: a sequential map over the batch
LibExecuteTasks(json) ==
    LET parsed == FromJson(json)
    IN  IF ~parsed.ok THEN LibParseError
        ELSE [status |-> "ok",
              json |-> [i \in 1..Len(parsed.configs) |->
                  <<parsed.configs[i].id,
                    [executed_task |-> parsed.configs[i].id,
                     on |-> parsed.configs[i].backend]>>]]

\* The host hands the batch and ceilings of the call that has returned to
\* the pyo3 schedule_tasks.
LibScheduleCall ==
    /\ pc = "sched_returned"
    /\ lib_result = NoResult
    /\ lib_result' = LibScheduleTasks(ToJson(task_configs), max_latency, max_budget)
    /\ UNCHANGED <<pc, task_configs, previous, peer>>
    /\ UNCHANGED schedVars
    /\ UNCHANGED execVars
    /\ UNCHANGED fieldVars

\* The host hands the batch of the call that has returned to the pyo3
\* execute_tasks.
LibExecuteCall ==
    /\ pc = "exec_returned"
    /\ lib_result = NoResult
    /\ lib_result' = LibExecuteTasks(ToJson(task_configs))
    /\ UNCHANGED <<pc, task_configs, previous, peer>>
    /\ UNCHANGED schedVars
    /\ UNCHANGED execVars
    /\ UNCHANGED fieldVars

Next ==
    \/ CallSchedule
    \/ ValidateStep
    \/ ValidateDone
    \/ DrainStep
    \/ ScheduleReturn
    \/ CallExecute
    \/ SpawnStep
    \/ SpawnDone
    \/ \E i \in 1..MaxLen : UnitFinish(i)
    \/ \E i \in 1..MaxLen : UnitFail(i)
    \/ JoinStep
    \/ ExecuteReturn
    \/ LibScheduleCall
    \/ LibExecuteCall
    \/ Release

Spec == Init /\ [][Next]_vars

\* schedule_tasks alone, each call repeated at will on the same arguments.
NextRepeat ==
    \/ CallSchedule
    \/ CallScheduleAgain
    \/ ValidateStep
    \/ ValidateDone
    \/ DrainStep
    \/ ScheduleReturn
    \/ Release

SpecRepeat == Init /\ [][NextRepeat]_vars

\* Two callers share the Scheduler: one schedule_tasks call in its own frame
\* runs interleaved with a schedule_tasks or an execute_tasks call.
NextConcurrent ==
    \/ CallScheduleShared
    \/ ValidateStep
    \/ ValidateDone
    \/ DrainStep
    \/ ScheduleReturn
    \/ CallExecuteShared
    \/ SpawnStep
    \/ SpawnDone
    \/ \E i \in 1..SharedLen : UnitFinish(i)
    \/ \E i \in 1..SharedLen : UnitFail(i)
    \/ JoinStep
    \/ ExecuteReturn
    \/ Release
    \/ PeerCall
    \/ PeerStep
    \/ PeerRelease

SpecConcurrent == Init /\ [][NextConcurrent]_vars

\* One caller, whose call keeps running once made, and a runtime that runs
\* every spawned task to its end or to its failure.
NextFair ==
    \/ CallScheduleShared
    \/ ValidateStep
    \/ ValidateDone
    \/ DrainStep
    \/ ScheduleReturn
    \/ CallExecuteShared
    \/ SpawnStep
    \/ SpawnDone
    \/ \E i \in 1..SharedLen : UnitFinish(i)
    \/ \E i \in 1..SharedLen : UnitFail(i)
    \/ JoinStep
    \/ ExecuteReturn
    \/ Release

Fairness ==
    /\ WF_vars(ValidateStep)
    /\ WF_vars(ValidateDone)
    /\ WF_vars(DrainStep)
    /\ WF_vars(ScheduleReturn)
    /\ WF_vars(SpawnStep)
    /\ WF_vars(SpawnDone)
    /\ WF_vars(JoinStep)
    /\ WF_vars(ExecuteReturn)
    /\ \A i \in 1..SharedLen : WF_vars(UnitFinish(i) \/ UnitFail(i))

SpecFair == Init /\ [][NextFair]_vars /\ Fairness

\* schedule_tasks alone, on costs and ceilings around 2^53.
NextLarge ==
    \/ CallScheduleLarge
    \/ ValidateStep
    \/ ValidateDone
    \/ DrainStep
    \/ ScheduleReturn
    \/ Release

SpecLarge == Init /\ [][NextLarge]_vars

(***************************************************************************)
(* Vocabulary of the properties: stated on the arguments and the result of  *)
(* a call, not on the way the call computes.                                *)
(***************************************************************************)
\* Sum of estimated_cost over the first k descriptors, in input order.
RECURSIVE PrefixSum(_, _)
PrefixSum(batch, k) ==
    IF k = 0 THEN F(0) ELSE FAdd(PrefixSum(batch, k - 1), batch[k].estimated_cost)

DerivedLatency(d) == FMul(d.estimated_cost, F(10))

CountIn(x, seq) == Cardinality({i \in 1..Len(seq) : seq[i] = x})
Range(seq) == {seq[i] : i \in 1..Len(seq)}

\* The two sequences hold the same descriptors, each as often.
SameBag(s, t) ==
    /\ Len(s) = Len(t)
    /\ \A x \in Range(s) \cup Range(t) : CountIn(x, s) = CountIn(x, t)

SortedByCost(seq) ==
    \A i \in 1..(Len(seq) - 1) :
        FLe(seq[i].estimated_cost, seq[i + 1].estimated_cost)

ScheduleReturned == pc = "sched_returned"
Succeeded == ScheduleReturned /\ sched_result.status = "ok"
Failed == ScheduleReturned /\ sched_result.status = "err"

LatencyOver(i) == FGt(DerivedLatency(task_configs[i]), max_latency)
BudgetOver(i) == FGt(PrefixSum(task_configs, i), max_budget)
Positions == 1..Len(task_configs)

\* Every descriptor is within the latency ceiling and every prefix sum within
\* the budget ceiling, equality included.
WithinCeilings ==
    /\ \A i \in Positions : FLe(DerivedLatency(task_configs[i]), max_latency)
    /\ \A i \in Positions : FLe(PrefixSum(task_configs, i), max_budget)

\* C1: a batch whose descriptors all have estimated_cost * 10 <= max_latency
\* and whose prefix sums are all <= max_budget is accepted, and what comes
\* back is all the input descriptors in ascending order of estimated_cost.
C1_AdmittedBatchSortedByCost ==
    (ScheduleReturned /\ WithinCeilings) =>
        /\ sched_result.status = "ok"
        /\ SameBag(sched_result.tasks, task_configs)
        /\ SortedByCost(sched_result.tasks)

\* A three-descriptor batch, not in cost order, that meets both ceilings with
\* equality, has been scheduled.
C1_Witness ==
    /\ ScheduleReturned /\ WithinCeilings
    /\ Len(task_configs) = 3
    /\ ~SortedByCost(task_configs)
    /\ \E i \in Positions : DerivedLatency(task_configs[i]) = max_latency
    /\ PrefixSum(task_configs, 3) = max_budget

\* C2 as stated: whenever some descriptor's derived latency exceeds
\* max_latency the call fails with the latency error naming such a descriptor.
C2_AnyLatencyExcessReported ==
    (ScheduleReturned /\ \E i \in Positions : LatencyOver(i)) =>
        /\ sched_result.status = "err"
        /\ sched_result.kind = "latency"
        /\ \E i \in Positions :
              LatencyOver(i) /\ sched_result.id = task_configs[i].id

\* C2 amended: when descriptor i exceeds the latency ceiling and no earlier
\* descriptor exceeds it or takes the prefix sum over the budget, the call
\* fails with the latency error naming descriptor i, its latency and the
\* ceiling; descriptor i and the later ones are not added to the total.
C2_FirstLatencyExcessReported ==
    \A i \in Positions :
        (/\ ScheduleReturned
         /\ LatencyOver(i)
         /\ \A j \in 1..(i - 1) : ~LatencyOver(j) /\ ~BudgetOver(j)) =>
            /\ sched_result.status = "err"
            /\ sched_result.kind = "latency"
            /\ sched_result.id = task_configs[i].id
            /\ sched_result.latency = DerivedLatency(task_configs[i])
            /\ sched_result.limit = max_latency
            /\ idx = i
            /\ total_cost = PrefixSum(task_configs, i - 1)

\* The second of three descriptors was rejected for latency, and with the
\* third the budget would have been exceeded as well.
C2_Witness ==
    /\ Failed /\ sched_result.kind = "latency"
    /\ Len(task_configs) = 3
    /\ idx = 2
    /\ LatencyOver(2)
    /\ BudgetOver(3)

\* C3 as stated: when the prefix sums first exceed max_budget at descriptor k
\* the call fails with the budget error carrying the prefix sum through k.
C3_BudgetExcessReported ==
    \A k \in Positions :
        (/\ ScheduleReturned
         /\ BudgetOver(k)
         /\ \A j \in 1..(k - 1) : ~BudgetOver(j)) =>
            /\ sched_result.status = "err"
            /\ sched_result.kind = "budget"
            /\ sched_result.total = PrefixSum(task_configs, k)

\* C3 amended: the same, provided no descriptor up to and including k
\* exceeds the latency ceiling.
C3_FirstBudgetExcessReported ==
    \A k \in Positions :
        (/\ ScheduleReturned
         /\ BudgetOver(k)
         /\ \A j \in 1..(k - 1) : ~BudgetOver(j)
         /\ \A j \in 1..k : ~LatencyOver(j)) =>
            /\ sched_result.status = "err"
            /\ sched_result.kind = "budget"
            /\ sched_result.total = PrefixSum(task_configs, k)
            /\ sched_result.limit = max_budget
            /\ idx = k

\* The budget was exceeded at the third descriptor, whose cost alone is
\* within the budget: the total reported is the sum of all three.
C3_Witness ==
    /\ Failed /\ sched_result.kind = "budget"
    /\ idx = 3
    /\ ~FGt(task_configs[3].estimated_cost, max_budget)
    /\ sched_result.total = PrefixSum(task_configs, 3)

\* C4: whenever schedule_tasks succeeds, what it returns holds the whole input
\* descriptors (id, type, backend, estimated_cost), each as often as the
\* input does: none added, removed, merged or changed.
C4_OutputIsPermutation ==
    Succeeded => SameBag(sched_result.tasks, task_configs)

\* A successful call on a batch holding two different descriptors of equal
\* id and equal cost, and a descriptor whose cost is NaN.
C4_Witness ==
    /\ Succeeded
    /\ Len(task_configs) = 3
    /\ \E i, j \in Positions :
          /\ task_configs[i] # task_configs[j]
          /\ task_configs[i].id = task_configs[j].id
          /\ task_configs[i].estimated_cost = task_configs[j].estimated_cost
          /\ ~task_configs[i].estimated_cost.nan
    /\ \E i \in Positions : task_configs[i].estimated_cost.nan

\* C5: a call that has returned either succeeded with as many descriptors as
\* the batch holds, every input descriptor among them, or failed handing back
\* no descriptor; it failed exactly when some descriptor exceeds a ceiling.
C5_AllOrNothing ==
    ScheduleReturned =>
        IF \E i \in Positions : LatencyOver(i) \/ BudgetOver(i)
        THEN sched_result.status = "err" /\ sched_result.tasks = <<>>
        ELSE /\ sched_result.status = "ok"
             /\ Len(sched_result.tasks) = Len(task_configs)
             /\ Range(task_configs) \subseteq Range(sched_result.tasks)

\* The call failed at the third descriptor with two descriptors already on
\* the heap.
C5_Witness ==
    /\ Failed
    /\ idx = 3
    /\ Len(heap) = 2
    /\ sched_result.tasks = <<>>

(***************************************************************************)
(* Properties of execute_tasks                                              *)
(***************************************************************************)
ExecuteReturned == pc = "exec_returned"
Units == 1..Len(handles)
NoUnitFailed == \A i \in Units : handles[i].state # "failed"
FailedUnits == {i \in Units : handles[i].state = "failed"}

\* The ids of the outcomes, and of the descriptors, in sequence.
OutcomeIds(os) == [i \in 1..Len(os) |-> os[i][1]]
ConfigIds(batch) == [i \in 1..Len(batch) |-> batch[i].id]

\* What the descriptor d stands for in the outcome collection.
ExpectedOutcome(d) == <<d.id, [executed_task |-> d.id, on |-> d.backend]>>

\* C6: a call on a non-empty batch in which no unit failed returns as many
\* outcomes as the batch has descriptors, and every id is the id of as many
\* outcomes as of descriptors, whatever the order the units completed in.
C6_OneOutcomePerDescriptor ==
    (ExecuteReturned /\ task_configs # <<>> /\ NoUnitFailed) =>
        /\ Len(exec_result.outcomes) = Len(task_configs)
        /\ \A id \in Ids :
              CountIn(id, OutcomeIds(exec_result.outcomes))
                  = CountIn(id, ConfigIds(task_configs))

\* Three units, none failed, completed in the reverse of the spawn order;
\* two of the descriptors share an id.
C6_Witness ==
    /\ ExecuteReturned /\ NoUnitFailed
    /\ Len(task_configs) = 3
    /\ completed = <<3, 2, 1>>
    /\ task_configs[1].id = task_configs[3].id
    /\ task_configs[1].id # task_configs[2].id

\* C7: once execute_tasks has returned, one unit was spawned per descriptor
\* and each of them has finished or failed and has been joined.
C7_AllUnitsCompleteAtReturn ==
    ExecuteReturned =>
        /\ Len(handles) = Len(task_configs)
        /\ \A i \in Units : handles[i].state \in {"finished", "failed"}
        /\ joined = Len(handles)
        /\ Range(completed) = Units

\* The call returned after three units completed, the last spawned first,
\* one of them by failing.
C7_Witness ==
    /\ ExecuteReturned
    /\ Len(handles) = 3
    /\ completed[1] = 3
    /\ FailedUnits # {}
    /\ FailedUnits # Units

\* C8 as stated: the order of the outcomes is decided by the interleaving of
\* the units, so that units of pairwise different outcomes that complete out
\* of input order yield outcomes out of input order.
C8_OrderFollowsCompletion ==
    (/\ ExecuteReturned /\ NoUnitFailed
     /\ \A i, j \in Positions :
           i # j => ExpectedOutcome(task_configs[i]) # ExpectedOutcome(task_configs[j])
     /\ completed # [i \in Positions |-> i]) =>
        exec_result.outcomes # [i \in Positions |-> ExpectedOutcome(task_configs[i])]

\* C8 amended: the outcomes come back in input order.  The outcomes are those
\* of a subsequence of the batch, and of the batch itself, position by
\* position, when no unit failed.
C8_OutcomesInInputOrder ==
    ExecuteReturned =>
        LET os == exec_result.outcomes
        IN  /\ \E f \in [1..Len(os) -> Positions] :
                  /\ \A i, j \in 1..Len(os) : i < j => f[i] < f[j]
                  /\ \A i \in 1..Len(os) : os[i] = ExpectedOutcome(task_configs[f[i]])
            /\ NoUnitFailed =>
                  os = [i \in Positions |-> ExpectedOutcome(task_configs[i])]

\* Three units with pairwise different outcomes completed in the reverse of
\* the input order, none failed, and the call has returned.
C8_Witness ==
    /\ ExecuteReturned /\ NoUnitFailed
    /\ completed = <<3, 2, 1>>
    /\ \A i, j \in Positions :
          i # j => ExpectedOutcome(task_configs[i]) # ExpectedOutcome(task_configs[j])

\* C9: a call on the empty batch spawns no unit at any point and returns
\* normally with the empty outcome collection.
C9_EmptyBatchNoUnits ==
    (pc \in {"spawn", "join", "exec_returned"} /\ task_configs = <<>>) =>
        /\ handles = <<>>
        /\ completed = <<>>
        /\ results = <<>>
        /\ ExecuteReturned =>
              exec_result.status = "ok" /\ exec_result.outcomes = <<>>

\* execute_tasks has returned from a call on the empty batch.
C9_Witness == ExecuteReturned /\ task_configs = <<>>

\* The outcomes of the units that finished, in spawn order.
RECURSIVE FinishedOutcomes(_)
FinishedOutcomes(hs) ==
    IF hs = <<>> THEN <<>>
    ELSE LET front == FinishedOutcomes(SubSeq(hs, 1, Len(hs) - 1))
             h == hs[Len(hs)]
         IN  IF h.state = "finished"
             THEN Append(front, ExpectedOutcome(h.task))
             ELSE front

\* C10: a call in which units failed still returns normally; each failed unit
\* contributes nothing, each other unit exactly its outcome, so that the
\* outcomes number len(batch) less the failed units; a failed unit is not run
\* again.
C10_FailedUnitsDropped ==
    ExecuteReturned =>
        /\ exec_result.status = "ok"
        /\ Len(exec_result.outcomes) = Len(task_configs) - Cardinality(FailedUnits)
        /\ exec_result.outcomes = FinishedOutcomes(handles)
        /\ \A i \in FailedUnits : handles[i].output = <<>> /\ CountIn(i, completed) = 1

\* Of three units the first failed and the two others finished; the call
\* has returned two outcomes.
C10_Witness ==
    /\ ExecuteReturned
    /\ Len(task_configs) = 3
    /\ FailedUnits = {1}
    /\ Len(exec_result.outcomes) = 2

\* C11: every outcome handed back, and every output a unit has produced so
\* far, pairs the id of one input descriptor with the message built from
\* that same descriptor's id and backend; distinct outcomes come from
\* distinct descriptors.
C11_OutcomePairsOwnBackend ==
    /\ \A i \in Units :
          handles[i].output # <<>> =>
              LET o == handles[i].output[1]
              IN  /\ o[1] = task_configs[i].id
                  /\ o[2].executed_task = task_configs[i].id
                  /\ o[2].on = task_configs[i].backend
    /\ ExecuteReturned =>
          LET os == exec_result.outcomes
          IN  \E f \in [1..Len(os) -> Positions] :
                  /\ \A i, j \in 1..Len(os) : i # j => f[i] # f[j]
                  /\ \A i \in 1..Len(os) :
                        /\ os[i][1] = task_configs[f[i]].id
                        /\ os[i][2].executed_task = task_configs[f[i]].id
                        /\ os[i][2].on = task_configs[f[i]].backend

\* Two descriptors of one id and different backends, the second completed
\* first, and the call has returned both outcomes.
C11_Witness ==
    /\ ExecuteReturned
    /\ Len(exec_result.outcomes) = 2
    /\ Len(task_configs) = 2
    /\ task_configs[1].id = task_configs[2].id
    /\ task_configs[1].backend # task_configs[2].backend
    /\ completed = <<2, 1>>

\* The positions at which a ceiling is exceeded, and the least of a set.
Violations == {i \in Positions : LatencyOver(i) \/ BudgetOver(i)}
Least(S) == CHOOSE i \in S : \A j \in S : i <= j

\* C14: the call reports the first violation in input order, latency before
\* budget at the same descriptor.  With i the least position at which the
\* latency or the prefix sum exceeds its ceiling: the loop stopped at i; the
\* error is the latency error naming descriptor i, its latency and the
\* ceiling, with the total still the prefix sum before i, when the latency is
\* exceeded, and the budget error with the prefix sum through i otherwise.
C14_FirstViolationReported ==
    ScheduleReturned =>
        IF Violations = {}
        THEN sched_result.status = "ok"
        ELSE LET i == Least(Violations)
             IN  /\ sched_result.status = "err"
                 /\ idx = i
                 /\ Len(heap) = i - 1
                 /\ IF LatencyOver(i)
                    THEN /\ sched_result.kind = "latency"
                         /\ sched_result.id = task_configs[i].id
                         /\ sched_result.latency = DerivedLatency(task_configs[i])
                         /\ sched_result.limit = max_latency
                         /\ total_cost = PrefixSum(task_configs, i - 1)
                    ELSE /\ sched_result.kind = "budget"
                         /\ sched_result.total = PrefixSum(task_configs, i)
                         /\ sched_result.limit = max_budget

\* The second of three descriptors exceeds both ceilings and the third
\* exceeds the latency ceiling: the latency error names the second.
C14_Witness ==
    /\ Failed /\ sched_result.kind = "latency"
    /\ Len(task_configs) = 3
    /\ idx = 2
    /\ LatencyOver(2) /\ BudgetOver(2)
    /\ LatencyOver(3)
    /\ task_configs[2].id # task_configs[3].id

\* C15: handle i is the unit of descriptor i; no handle is joined before
\* every descriptor has its unit; and while descriptors are left the next
\* spawn can be taken however many units are live.
C15_OneUnitPerDescriptorAllSpawnedFirst ==
    /\ Len(handles) <= Len(task_configs)
    /\ \A i \in Units : handles[i].task = task_configs[i]
    /\ pc \in {"join", "exec_returned"} => Len(handles) = Len(task_configs)
    /\ joined > 0 => Len(handles) = Len(task_configs)
    /\ (pc = "spawn" /\ Len(handles) < Len(task_configs)) => ENABLED SpawnStep

\* All three units of a three-descriptor batch are live at once, none joined.
C15_Witness ==
    /\ Len(task_configs) = 3
    /\ Len(handles) = 3
    /\ \A i \in Units : handles[i].state = "running"
    /\ joined = 0

CostsOf(seq) == [i \in 1..Len(seq) |-> seq[i].estimated_cost]

\* C12: a call repeated on the same batch and ceilings returns what the call
\* before returned: the same error, or success with the same sequence of
\* costs, and the same sequence of descriptors when the costs of the batch
\* are pairwise distinct.
C12_RepeatedCallSameOutcome ==
    (ScheduleReturned /\ previous # NoResult) =>
        /\ sched_result.status = previous.status
        /\ sched_result.status = "err" => sched_result = previous
        /\ sched_result.status = "ok" =>
              /\ CostsOf(sched_result.tasks) = CostsOf(previous.tasks)
              /\ (\A i, j \in Positions :
                     i # j => task_configs[i].estimated_cost
                                  # task_configs[j].estimated_cost)
                    => sched_result.tasks = previous.tasks

\* A batch of three descriptors of pairwise distinct costs, not in cost
\* order, has been scheduled a second time with success.
C12_Witness ==
    /\ Succeeded /\ previous # NoResult
    /\ Len(task_configs) = 3
    /\ ~SortedByCost(task_configs)
    /\ \A i, j \in Positions :
          i # j => task_configs[i].estimated_cost # task_configs[j].estimated_cost
    /\ PrefixSum(task_configs, 3) = max_budget

\* A batch the JSON boundary can carry: no cost is NaN.
WellFormed == \A i \in Positions : ~task_configs[i].estimated_cost.nan

\* C17: on a well-formed batch the pyo3 schedule_tasks returns what the core
\* schedule_tasks returned on the same arguments: the JSON of the same
\* sequence of descriptors, or the same violation with the same values; and
\* the pyo3 execute_tasks returns the outcomes the core execute_tasks
\* returned, in the same order, when no unit failed.
C17_LibAgreesWithCore ==
    /\ (ScheduleReturned /\ lib_result # NoResult /\ WellFormed) =>
          /\ lib_result.status = sched_result.status
          /\ sched_result.status = "ok" =>
                lib_result.json = ToJson(sched_result.tasks)
          /\ sched_result.status = "err" =>
                /\ lib_result.kind = sched_result.kind
                /\ sched_result.kind = "latency" =>
                      /\ lib_result.id = sched_result.id
                      /\ lib_result.latency = sched_result.latency
                      /\ lib_result.limit = sched_result.limit
                /\ sched_result.kind = "budget" =>
                      /\ lib_result.total = sched_result.total
                      /\ lib_result.limit = sched_result.limit
    /\ (ExecuteReturned /\ lib_result # NoResult /\ NoUnitFailed) =>
          /\ lib_result.status = "ok"
          /\ lib_result.json = exec_result.outcomes

\* Both implementations have scheduled a well-formed batch of three
\* descriptors, not in cost order, two of them of equal cost.
C17_Witness ==
    /\ Succeeded /\ lib_result # NoResult /\ WellFormed
    /\ Len(task_configs) = 3
    /\ ~SortedByCost(task_configs)
    /\ task_configs[1].estimated_cost = task_configs[3].estimated_cost
    /\ task_configs[1] # task_configs[3]

PeerReturned == peer.pc = "sched_returned"
PeerSucceeded == PeerReturned /\ peer.sched_result.status = "ok"

\* C13: whatever calls have been made, are in progress or have returned, on
\* one caller or on two at once, the Scheduler's own task queue is empty and
\* its lock is free: no call reads, writes or locks it.
C13_SchedulerQueueUntouched == tasks = <<>> /\ ~tasks_locked

\* Two calls on the same Scheduler have returned, one with an error and one
\* with a full batch admitted, and the queue is empty and unlocked.
C13_Witness ==
    /\ Failed
    /\ PeerSucceeded
    /\ Len(peer.sched_result.tasks) = SharedLen
    /\ tasks = <<>> /\ ~tasks_locked

\* C19: of two calls in progress at once on the same Scheduler, each returns
\* what it returns when run on its own on its arguments, and a successful
\* schedule_tasks call returns descriptors of its own batch only.
C19_ConcurrentCallsIsolated ==
    /\ ScheduleReturned =>
          sched_result = ScheduleTasks(task_configs, max_latency, max_budget)
    /\ PeerReturned =>
          peer.sched_result =
              ScheduleTasks(peer.task_configs, peer.max_latency, peer.max_budget)
    /\ ExecuteReturned =>
          exec_result = [status |-> "ok", outcomes |-> FinishedOutcomes(handles)]
    /\ Succeeded => SameBag(sched_result.tasks, task_configs)
    /\ PeerSucceeded => SameBag(peer.sched_result.tasks, peer.task_configs)
    /\ \A i \in Units : handles[i].task = task_configs[i]

\* One call has returned its full batch while the other, on a batch that
\* shares no descriptor with it, is in the middle of its drain loop.
C19_Witness ==
    /\ Succeeded
    /\ Len(sched_result.tasks) = SharedLen
    /\ peer.pc = "drain"
    /\ peer.heap # <<>> /\ peer.prioritized_tasks # <<>>
    /\ Range(peer.task_configs) \cap Range(task_configs) = {}

\* The rearrangements of a batch.
Permutations(n) ==
    {p \in [1..n -> 1..n] : \A i, j \in 1..n : p[i] = p[j] => i = j}
Permuted(batch, p) == [i \in 1..Len(batch) |-> batch[p[i]]]

NonNegative(batch) ==
    \A i \in 1..Len(batch) :
        /\ ~batch[i].estimated_cost.nan
        /\ batch[i].estimated_cost.hi >= 0
        /\ batch[i].estimated_cost.hi = 0 => batch[i].estimated_cost.v >= 0

\* The sum of the first k costs as a real number.
RECURSIVE RealSum(_, _)
RealSum(batch, k) ==
    IF k = 0 THEN [nan |-> FALSE, hi |-> 0, v |-> 0]
    ELSE LET front == RealSum(batch, k - 1)
         IN  [nan |-> FALSE, hi |-> front.hi + batch[k].estimated_cost.hi,
              v |-> front.v + batch[k].estimated_cost.v]

\* No addition of the running total rounds: every prefix sum the call forms
\* is the real sum.
SumsExact(batch) ==
    \A k \in 1..Len(batch) : PrefixSum(batch, k) = RealSum(batch, k)

\* What schedule_tasks returns on the batch rearranged by p.
Rescheduled(p) ==
    ScheduleTasks(Permuted(task_configs, p), max_latency, max_budget)

\* C18 as stated: every rearrangement of an admitted batch of non-negative
\* costs is admitted too, with the same sequence of costs.
C18_AdmissionOrderIndependent ==
    (Succeeded /\ NonNegative(task_configs)) =>
        \A p \in Permutations(Len(task_configs)) :
            /\ Rescheduled(p).status = "ok"
            /\ CostsOf(Rescheduled(p).tasks) = CostsOf(sched_result.tasks)

\* C18: every rearrangement of an admitted batch of non-negative costs is
\* admitted too, with the same sequence of costs, provided that no addition
\* of the running total rounds, in the batch as given and as rearranged.
C18_AdmissionOrderIndependentExactSums ==
    (Succeeded /\ NonNegative(task_configs) /\ SumsExact(task_configs)) =>
        \A p \in Permutations(Len(task_configs)) :
            SumsExact(Permuted(task_configs, p)) =>
                /\ Rescheduled(p).status = "ok"
                /\ CostsOf(Rescheduled(p).tasks) = CostsOf(sched_result.tasks)

\* A batch of three costs, 2^53 among them and not in cost order, has been
\* admitted with every prefix sum exact in each of its rearrangements.
C18_Witness ==
    /\ Succeeded
    /\ Len(task_configs) = 3
    /\ ~SortedByCost(task_configs)
    /\ \E i \in Positions : task_configs[i].estimated_cost = Huge
    /\ \A p \in Permutations(3) : SumsExact(Permuted(task_configs, p))

\* C16: with every spawned unit eventually finishing or failing, every
\* execute_tasks call that has been entered eventually returns; every
\* schedule_tasks call that has been entered eventually returns; and all
\* through the drain loop the descriptors extracted and those still in the
\* heap are together the admitted ones, so that the loop ends after one
\* extraction for each.
C16_EveryCallReturns ==
    /\ (pc = "spawn") ~> (pc = "exec_returned")
    /\ (pc = "validate") ~> (pc = "sched_returned")
    /\ [](pc = "drain" => Len(prioritized_tasks) + Len(heap) = Len(task_configs))
    /\ [](Succeeded =>
             Len(sched_result.tasks) = Len(task_configs) /\ heap = <<>>)

\* An execute_tasks call whose every unit failed, the last spawned first,
\* has returned.
C16_Witness ==
    /\ ExecuteReturned
    /\ Len(task_configs) = SharedLen
    /\ FailedUnits = Units
    /\ completed[1] = SharedLen
====
